---- MODULE Spec2Model ----
(***************************************************************************)
(* Model of the Flask backend in src/app.py: the /predict handler (image   *)
(* inference stage, biomedical heuristic stage, fusion stage), the model   *)
(* artifact loaded at start-up and the upload folder the handler writes.   *)
(*                                                                         *)
(* Python strings whose characters matter (labels, file names, numeric     *)
(* texts) are sequences of one-character strings, so that `in`, `+`,       *)
(* secure_filename and float() are computed as the code computes them.     *)
(* Numbers are exact rationals [n |-> numerator, d |-> denominator > 0].   *)
(***************************************************************************)
EXTENDS Integers, Sequences, FiniteSets, TLC

\* ------------------------------------------------------------------------
\* Bounds of the model
\* ------------------------------------------------------------------------

\* number of request-handling threads of the server (SpecConc)
NumWorkers == 2

\* number of /predict requests that arrive in one behaviour
MaxArrivals == 2

Workers == 1..NumWorkers

\* ------------------------------------------------------------------------
\* Python values
\* ------------------------------------------------------------------------

\* Python None where a str is optional (image_result, biomedical_result,
\* img_path, and the null of the JSON response): one token that is no character
None == <<"<None>">>

\* truth value of an optional str: `if x`
Truthy(x) == x # None /\ x # <<>>

\* needle in hay
Contains(needle, hay) ==
    \E i \in 1..(Len(hay) - Len(needle) + 1) :
        SubSeq(hay, i, i + Len(needle) - 1) = needle

\* ------------------------------------------------------------------------
\* String literals of app.py
\* ------------------------------------------------------------------------

\* 'static/uploads'
UPLOAD_FOLDER == <<"s","t","a","t","i","c","/","u","p","l","o","a","d","s">>

\* 'Non Autistic'
NON_AUTISTIC == <<"N","o","n"," ","A","u","t","i","s","t","i","c">>

\* 'Autistic'
AUTISTIC == <<"A","u","t","i","s","t","i","c">>

\* 'Potential Autism Risk (based on biomedical data)'
RISK_LABEL == <<"P","o","t","e","n","t","i","a","l"," ","A","u","t","i","s","m"," ","R","i","s","k"," ","(","b","a","s","e","d"," ","o","n"," ","b","i","o","m","e","d","i","c","a","l"," ","d","a","t","a",")">>

\* 'Low Risk (based on biomedical data)': the low-risk label without 'Autism'
LowRiskLabelWithoutAutism == <<"L","o","w"," ","R","i","s","k"," ","(","b","a","s","e","d"," ","o","n"," ","b","i","o","m","e","d","i","c","a","l"," ","d","a","t","a",")">>

\* 'Low Autism Risk (based on biomedical data)'
LOW_RISK_LABEL == <<"L","o","w"," ","A","u","t","i","s","m"," ","R","i","s","k"," ","(","b","a","s","e","d"," ","o","n"," ","b","i","o","m","e","d","i","c","a","l"," ","d","a","t","a",")">>

\* 'Autism Risk'
AUTISM_RISK == <<"A","u","t","i","s","m"," ","R","i","s","k">>

\* 'Unable to determine'
UNABLE_TO_DETERMINE == <<"U","n","a","b","l","e"," ","t","o"," ","d","e","t","e","r","m","i","n","e">>

\* 'Highly Suggestive of Autism'
HIGHLY_SUGGESTIVE == <<"H","i","g","h","l","y"," ","S","u","g","g","e","s","t","i","v","e"," ","o","f"," ","A","u","t","i","s","m">>

\* 'Suggestive of Autism (consider more tests)'
SUGGESTIVE == <<"S","u","g","g","e","s","t","i","v","e"," ","o","f"," ","A","u","t","i","s","m"," ","(","c","o","n","s","i","d","e","r"," ","m","o","r","e"," ","t","e","s","t","s",")">>

\* 'Not Autistic'
NOT_AUTISTIC == <<"N","o","t"," ","A","u","t","i","s","t","i","c">>

\* 'Image Prediction: '
IMAGE_PREDICTION_PREFIX == <<"I","m","a","g","e"," ","P","r","e","d","i","c","t","i","o","n",":"," ">>

\* 'Biomedical Prediction: '
BIOMEDICAL_PREDICTION_PREFIX == <<"B","i","o","m","e","d","i","c","a","l"," ","P","r","e","d","i","c","t","i","o","n",":"," ">>

\* 'No data provided for prediction.'
NO_DATA == <<"N","o"," ","d","a","t","a"," ","p","r","o","v","i","d","e","d"," ","f","o","r"," ","p","r","e","d","i","c","t","i","o","n",".">>

\* ------------------------------------------------------------------------
\* werkzeug.utils.secure_filename, as called on the client's file name
\* ------------------------------------------------------------------------

Digits == <<"0","1","2","3","4","5","6","7","8","9">>

DigitChars == {Digits[i] : i \in 1..Len(Digits)}

LetterChars ==
    {"a","b","c","d","e","f","g","h","i","j","k","l","m",
     "n","o","p","q","r","s","t","u","v","w","x","y","z",
     "A","B","C","D","E","F","G","H","I","J","K","L","M",
     "N","O","P","Q","R","S","T","U","V","W","X","Y","Z"}

\* the characters the regular expression [^A-Za-z0-9_.-] keeps
FilenameChars == LetterChars \cup DigitChars \cup {"_", ".", "-"}

\* s.strip(chars)
RECURSIVE LStrip(_, _)
LStrip(s, chars) ==
    IF s # <<>> /\ Head(s) \in chars THEN LStrip(Tail(s), chars) ELSE s

RECURSIVE RStrip(_, _)
RStrip(s, chars) ==
    IF s # <<>> /\ s[Len(s)] \in chars
    THEN RStrip(SubSeq(s, 1, Len(s) - 1), chars)
    ELSE s

Strip(s, chars) == RStrip(LStrip(s, chars), chars)

\* filename.replace(sep, ' ')
ReplaceSep(s) == [i \in 1..Len(s) |-> IF s[i] = "/" THEN " " ELSE s[i]]

\* '_'.join(s.split()): runs of blanks become one '_', outer blanks vanish
RECURSIVE JoinWords(_)
JoinWords(s) ==
    IF s = <<>> THEN <<>>
    ELSE IF Head(s) = " "
         THEN IF LStrip(s, {" "}) = <<>> THEN <<>>
              ELSE <<"_">> \o JoinWords(LStrip(s, {" "}))
         ELSE <<Head(s)>> \o JoinWords(Tail(s))

IsFilenameChar(c) == c \in FilenameChars

secure_filename(filename) ==
    Strip(SelectSeq(JoinWords(Strip(ReplaceSep(filename), {" "})),
                    IsFilenameChar),
          {".", "_"})

\* os.path.join(app.config['UPLOAD_FOLDER'], filename)
PathJoin(dir, filename) == dir \o <<"/">> \o filename

\* '/' + img_path if img_path else None
ImagePathField(img_path) ==
    IF Truthy(img_path) THEN <<"/">> \o img_path ELSE None

\* ------------------------------------------------------------------------
\* Numbers: float(), the JSON values of the biomedical fields
\* ------------------------------------------------------------------------

Rational(n, d) == [n |-> n, d |-> d]

\* 0.0, the default of an empty or missing field
ZERO == Rational(0, 1)

Returned(v) == [ok |-> TRUE, value |-> v]

Raised(exc) == [ok |-> FALSE, exc |-> exc]

DigitVal(c) == CHOOSE v \in 0..9 : Digits[v + 1] = c

\* the integer a string of decimal digits denotes ('' denotes 0)
RECURSIVE DigitsToInt(_)
DigitsToInt(s) ==
    IF s = <<>> THEN 0
    ELSE 10 * DigitsToInt(SubSeq(s, 1, Len(s) - 1)) + DigitVal(s[Len(s)])

RECURSIVE Pow10(_)
Pow10(k) == IF k = 0 THEN 1 ELSE 10 * Pow10(k - 1)

IsDigit(c) == c \in DigitChars

\* float(text) of an unsigned decimal literal: digits with at most one '.',
\* and at least one digit
FloatUnsigned(s, sign) ==
    LET digits == SelectSeq(s, IsDigit)
        dots   == {i \in 1..Len(s) : s[i] = "."}
    IN  IF /\ digits # <<>>
           /\ Cardinality(dots) <= 1
           /\ \A i \in 1..Len(s) : s[i] \in DigitChars \cup {"."}
        THEN LET frac == IF dots = {} THEN 0
                         ELSE Len(s) - (CHOOSE i \in dots : TRUE)
             IN  Returned(Rational(sign * DigitsToInt(digits), Pow10(frac)))
        ELSE Raised("ValueError")

\* float(text), except that a text float() rejects silently counts as 0.0
FloatOfTextLenient(text) ==
    LET s == Strip(text, {" "})
        r == IF s = <<>> THEN Raised("ValueError")
             ELSE IF Head(s) = "-" THEN FloatUnsigned(Tail(s), -1)
             ELSE IF Head(s) = "+" THEN FloatUnsigned(Tail(s), 1)
             ELSE FloatUnsigned(s, 1)
    IN  IF r.ok THEN r ELSE Returned(ZERO)

\* float(text) of a str: surrounding blanks are ignored, one sign is allowed
FloatOfText(text) ==
    LET s == Strip(text, {" "})
    IN  IF s = <<>> THEN Raised("ValueError")
        ELSE IF Head(s) = "-" THEN FloatUnsigned(Tail(s), -1)
        ELSE IF Head(s) = "+" THEN FloatUnsigned(Tail(s), 1)
        ELSE FloatUnsigned(s, 1)

\* A value of a key of the decoded JSON object:
\*   [kind |-> "missing"]               the key is not in the object
\*   [kind |-> "str",  text |-> chars]  a JSON string
\*   [kind |-> "num",  value |-> q]     a JSON number
\*   [kind |-> "bool", b |-> BOOLEAN]   true / false
\*   [kind |-> "null"]                  null
Missing == [kind |-> "missing"]

Str(chars) == [kind |-> "str", text |-> chars]

Num(n, d) == [kind |-> "num", value |-> Rational(n, d)]

Bool(b) == [kind |-> "bool", b |-> b]

Null == [kind |-> "null"]

\* float(x)
FloatOf(x) ==
    CASE x.kind = "str"  -> FloatOfText(x.text)
      [] x.kind = "num"  -> Returned(x.value)
      [] x.kind = "bool" -> Returned(IF x.b THEN Rational(1, 1) ELSE ZERO)
      [] x.kind = "null" -> Raised("TypeError")

\* biomedical_params.get(key, '')
Get(biomedical_params, key) ==
    IF biomedical_params[key].kind = "missing" THEN Str(<<>>)
    ELSE biomedical_params[key]

\* float(x) if x != '' else 0.0
ToFloat(x) == IF x # Str(<<>>) THEN FloatOf(x) ELSE Returned(ZERO)

\* a > b and a < b on rationals with positive denominators
Greater(a, b) == a.n * b.d > b.n * a.d

Less(a, b) == a.n * b.d < b.n * a.d

\* ------------------------------------------------------------------------
\* The stages of /predict as functions of their inputs
\* ------------------------------------------------------------------------

\* 0.5, the threshold on the model's scalar output
HALF == Rational(1, 2)

\* 7.0, the threshold on eeg_score
EEG_THRESHOLD == Rational(7, 1)

\* 70.0, the threshold on heart_rate
HEART_RATE_THRESHOLD == Rational(70, 1)

\* the label with the comparison `prediction >= 0.5`
ImageLabelNonStrict(prediction) ==
    IF ~ Less(prediction, HALF) THEN NON_AUTISTIC ELSE AUTISTIC

\* if prediction > 0.5: 'Non Autistic' else: 'Autistic'
ImageLabel(prediction) ==
    IF Greater(prediction, HALF) THEN NON_AUTISTIC ELSE AUTISTIC

\* the rule with the comparison `heart_rate <= 70.0`
BiomedicalRuleNonStrict(eeg_score, heart_rate) ==
    IF Greater(eeg_score, EEG_THRESHOLD)
       /\ ~ Greater(heart_rate, HEART_RATE_THRESHOLD)
    THEN RISK_LABEL
    ELSE LOW_RISK_LABEL

\* if eeg_score > 7.0 and heart_rate < 70.0: risk label else: low-risk label
BiomedicalRule(eeg_score, heart_rate) ==
    IF Greater(eeg_score, EEG_THRESHOLD)
       /\ Less(heart_rate, HEART_RATE_THRESHOLD)
    THEN RISK_LABEL
    ELSE LOW_RISK_LABEL

\* The biomedicalData form field:
\*   [kind |-> "absent"]     the form has no such field (form.get gives None)
\*   [kind |-> "empty"]      the field is ''
\*   [kind |-> "malformed"]  a text json.loads rejects, such as {eeg: 5}
\*   [kind |-> "nonobject"]  JSON that is no object, such as [1] or 5
\*   [kind |-> "object", eeg |-> v, heartRate |-> v, cholesterol |-> v]
\* json.loads(biomedical_data_str)
JsonLoads(biomedical_data_str) ==
    IF biomedical_data_str.kind = "malformed"
    THEN Raised("JSONDecodeError")
    ELSE Returned(biomedical_data_str)

\* if biomedical_data_str:
BiomedicalDataGiven(biomedical_data_str) ==
    biomedical_data_str.kind \notin {"absent", "empty"}

Skipped == [kind |-> "skipped"]

Labelled(label) == [kind |-> "label", label |-> label]

\* return jsonify({'error': msg}), status    (inside the stage)
Rejected(msg) == [kind |-> "rejected", error |-> msg]

\* the except clauses of the biomedical stage, by the class of the exception
BiomedicalHandler(exc) ==
    CASE exc = "JSONDecodeError" ->
            Rejected("Invalid JSON format for biomedical data. Please check your inputs.")
      [] exc = "ValueError" ->
            Rejected("Invalid biomedical data format. Please ensure numerical inputs are numbers: ...")
      [] OTHER ->
            Rejected("Error processing biomedical data: ...")

\* the three conversions and the rule, in the order of the code; the first
\* conversion that raises ends the stage
BiomedicalFields(biomedical_params) ==
    LET eeg_score   == ToFloat(Get(biomedical_params, "eeg"))
        heart_rate  == ToFloat(Get(biomedical_params, "heartRate"))
        cholesterol == ToFloat(Get(biomedical_params, "cholesterol"))
    IN  IF ~ eeg_score.ok THEN BiomedicalHandler(eeg_score.exc)
        ELSE IF ~ heart_rate.ok THEN BiomedicalHandler(heart_rate.exc)
        ELSE IF ~ cholesterol.ok THEN BiomedicalHandler(cholesterol.exc)
        ELSE Labelled(BiomedicalRule(eeg_score.value, heart_rate.value))

\* the biomedical stage of predict()
BiomedicalOutcome(biomedical_data_str) ==
    IF ~ BiomedicalDataGiven(biomedical_data_str) THEN Skipped
    ELSE LET loaded == JsonLoads(biomedical_data_str)
         IN  IF ~ loaded.ok THEN BiomedicalHandler(loaded.exc)
             ELSE IF loaded.value.kind # "object"
                  THEN BiomedicalHandler("AttributeError")
                  ELSE BiomedicalFields(loaded.value)

\* the fusion with `and` in the elif
FusionWithAnd(image_result, biomedical_result) ==
    IF Truthy(image_result) /\ Truthy(biomedical_result)
    THEN IF image_result = AUTISTIC /\ Contains(AUTISM_RISK, biomedical_result)
         THEN HIGHLY_SUGGESTIVE
         ELSE IF image_result = AUTISTIC /\ Contains(AUTISM_RISK, biomedical_result)
              THEN SUGGESTIVE
              ELSE NOT_AUTISTIC
    ELSE IF Truthy(image_result)
         THEN IMAGE_PREDICTION_PREFIX \o image_result
         ELSE IF Truthy(biomedical_result)
              THEN BIOMEDICAL_PREDICTION_PREFIX \o biomedical_result
              ELSE NO_DATA

\* the fusion without its final else: the placeholder is left in place
FusionWithoutElse(image_result, biomedical_result) ==
    IF Truthy(image_result) /\ Truthy(biomedical_result)
    THEN IF image_result = AUTISTIC /\ Contains(AUTISM_RISK, biomedical_result)
         THEN HIGHLY_SUGGESTIVE
         ELSE IF image_result = AUTISTIC \/ Contains(AUTISM_RISK, biomedical_result)
              THEN SUGGESTIVE
              ELSE NOT_AUTISTIC
    ELSE IF Truthy(image_result)
         THEN IMAGE_PREDICTION_PREFIX \o image_result
         ELSE IF Truthy(biomedical_result)
              THEN BIOMEDICAL_PREDICTION_PREFIX \o biomedical_result
              ELSE UNABLE_TO_DETERMINE

\* "Combine predictions": the value of final_prediction
Fusion(image_result, biomedical_result) ==
    IF Truthy(image_result) /\ Truthy(biomedical_result)
    THEN IF image_result = AUTISTIC /\ Contains(AUTISM_RISK, biomedical_result)
         THEN HIGHLY_SUGGESTIVE
         ELSE IF image_result = AUTISTIC \/ Contains(AUTISM_RISK, biomedical_result)
              THEN SUGGESTIVE
              ELSE NOT_AUTISTIC
    ELSE IF Truthy(image_result)
         THEN IMAGE_PREDICTION_PREFIX \o image_result
         ELSE IF Truthy(biomedical_result)
              THEN BIOMEDICAL_PREDICTION_PREFIX \o biomedical_result
              ELSE NO_DATA

\* ------------------------------------------------------------------------
\* HTTP responses
\* ------------------------------------------------------------------------

\* no response yet
NoResponse == [status |-> 0, body |-> [pending |-> TRUE]]

\* an error response that also carries the four prediction fields, all null
ErrorWithFields(msg, status) ==
    [status |-> status,
     body   |-> [error                 |-> msg,
                 image_prediction      |-> None,
                 biomedical_prediction |-> None,
                 combined_prediction   |-> None,
                 image_path            |-> None]]

\* return jsonify({'error': msg}), status
ErrorResponse(msg, status) ==
    [status |-> status, body |-> [error |-> msg]]

\* the success response with image_path always '/' + img_path
PredictionResponseAlwaysPath(image_result, biomedical_result, final_prediction, img_path) ==
    [status |-> 200,
     body   |-> [image_prediction      |-> image_result,
                 biomedical_prediction |-> biomedical_result,
                 combined_prediction   |-> final_prediction,
                 image_path            |-> <<"/">> \o img_path]]

\* return jsonify({...})  (status 200)
PredictionResponse(image_result, biomedical_result, final_prediction, img_path) ==
    [status |-> 200,
     body   |-> [image_prediction      |-> image_result,
                 biomedical_prediction |-> biomedical_result,
                 combined_prediction   |-> final_prediction,
                 image_path            |-> ImagePathField(img_path)]]

\* ------------------------------------------------------------------------
\* The inputs of the model
\* ------------------------------------------------------------------------

\* contents of an uploaded file: two images the decoder accepts, and a file
\* that is no image
Decodable == {"imgA", "imgB"}

Contents == Decodable \cup {"corrupt"}

\* what a file holds between open(path, 'wb') and the end of the copy
PARTIAL == "partial"

\* scalar outputs of the model: 0.4, 0.5, 0.6
Scores == {Rational(4, 10), Rational(5, 10), Rational(6, 10)}

\* model = None
ModelNone == [loaded |-> FALSE]

\* a loaded model: its scalar output on each decodable image
ModelLoaded(f) == [loaded |-> TRUE, predict |-> f]

Models == {ModelNone} \cup {ModelLoaded(f) : f \in [Decodable -> Scores]}

\* if not model:
ModelMissingNever(m) == FALSE

ModelMissing(m) == ~ m.loaded

\* file names a client sends: '', 'a.jpg', '../a.jpg', '..'
ClientFilenames ==
    { <<>>,
      <<"a",".","j","p","g">>,
      <<".",".","/","a",".","j","p","g">>,
      <<".",".">> }

\* request.files without 'image'
NoImage == [present |-> FALSE]

Upload(filename, content) ==
    [present |-> TRUE, filename |-> filename, content |-> content]

ImageUploads ==
    {NoImage} \cup {Upload(f, c) : f \in ClientFilenames, c \in Contents}

\* 'image' in request.files and request.files['image'].filename != ''
ImageGiven(files_image) == files_image.present /\ files_image.filename # <<>>

\* texts of the biomedical fields that denote a number
NumericTexts ==
    { <<"7">>, <<"7",".","0">>, <<"7",".","1">>, <<" ","8"," ">>,
      <<"6","9",".","9">>, <<"7","0">>, <<"-","5">>, <<"2","0","0">> }

\* texts of the biomedical fields that denote no number
NonNumericTexts == { <<"a","b","c">>, <<"7",".","1",".","2">>, <<"7","x">> }

EegValues ==
    { Missing, Str(<<>>), Str(<<"7">>), Str(<<"7",".","0">>),
      Str(<<"7",".","1">>), Str(<<" ","8"," ">>), Str(<<"a","b","c">>),
      Str(<<"7",".","1",".","2">>), Num(71, 10), Null, Bool(TRUE) }

HeartRateValues ==
    { Missing, Str(<<>>), Str(<<"6","9",".","9">>), Str(<<"7","0">>),
      Str(<<"-","5">>), Str(<<"7","x">>), Num(701, 10) }

CholesterolValues ==
    { Missing, Str(<<"2","0","0">>), Str(<<"a","b","c">>), Null }

BiomedicalObject(eeg, heartRate, cholesterol) ==
    [kind |-> "object", eeg |-> eeg, heartRate |-> heartRate,
     cholesterol |-> cholesterol]

BiomedicalInputs ==
    { [kind |-> "absent"], [kind |-> "empty"],
      [kind |-> "malformed"], [kind |-> "nonobject"] }
    \cup { BiomedicalObject(e, h, c) :
             e \in EegValues, h \in HeartRateValues, c \in CholesterolValues }

\* a request: request.files['image'] and request.form['biomedicalData']
Request(files_image, biomedicalData) ==
    [image |-> files_image, biomedicalData |-> biomedicalData]

Requests == {Request(i, b) : i \in ImageUploads, b \in BiomedicalInputs}

\* the requests of the concurrent specification: uploads under one stored
\* name with different contents, few biomedical inputs
ConcImageUploads ==
    { NoImage,
      Upload(<<"a",".","j","p","g">>, "imgA"),
      Upload(<<".",".","/","a",".","j","p","g">>, "imgB"),
      Upload(<<"a",".","j","p","g">>, "corrupt") }

ConcBiomedicalInputs ==
    { [kind |-> "absent"], [kind |-> "malformed"],
      BiomedicalObject(Str(<<" ","8"," ">>), Str(<<"6","9",".","9">>), Missing) }

ConcRequests ==
    {Request(i, b) : i \in ConcImageUploads, b \in ConcBiomedicalInputs}

NoRequest == Request(NoImage, [kind |-> "absent"])

\* a local number not assigned yet
Unset == Rational(0, 0)

\* ------------------------------------------------------------------------
\* State
\* ------------------------------------------------------------------------

VARIABLES
    model,              \* the global `model`: loaded at start-up or None
    files,              \* the files of the upload folder: path -> content
    arrivals,           \* number of requests received so far
    pc,                 \* per worker: the position in predict()
    request,            \* per worker: the request being handled
    image_result,       \* per worker: local image_result
    biomedical_result,  \* per worker: local biomedical_result
    img_path,           \* per worker: local img_path
    prediction,         \* per worker: local prediction (the model's scalar)
    response            \* per worker: the response returned

vars == <<model, files, arrivals, pc, request, image_result,
          biomedical_result, img_path, prediction, response>>

locals == <<image_result, biomedical_result, img_path, prediction>>

\* img_file.save(img_path) and open(path, 'wb'): the file at path holds content
WriteFile(fs, path, content) ==
    [p \in DOMAIN fs \cup {path} |-> IF p = path THEN content ELSE fs[p]]

\* the worker of the sequential specification
FirstWorker == CHOOSE r \in Workers : \A s \in Workers : r <= s

\* start-up: load_model succeeded or raised; the upload folder is empty
Init ==
    /\ model \in Models
    /\ files = <<>>
    /\ arrivals = 0
    /\ pc = [r \in Workers |-> "idle"]
    /\ request = [r \in Workers |-> NoRequest]
    /\ image_result = [r \in Workers |-> None]
    /\ biomedical_result = [r \in Workers |-> None]
    /\ img_path = [r \in Workers |-> None]
    /\ prediction = [r \in Workers |-> Unset]
    /\ response = [r \in Workers |-> NoResponse]

\* ------------------------------------------------------------------------
\* predict(), step by step
\* ------------------------------------------------------------------------

\* a POST /predict request reaches a free worker
Arrive(r, requests) ==
    /\ pc[r] = "idle"
    /\ arrivals < MaxArrivals
    /\ \E q \in requests : request' = [request EXCEPT ![r] = q]
    /\ arrivals' = arrivals + 1
    /\ pc' = [pc EXCEPT ![r] = "check_model"]
    /\ UNCHANGED <<model, files, locals, response>>

\* the response is sent: the request and the locals of the call are gone,
\* and the worker is free again
Return(r) ==
    /\ pc[r] = "done"
    /\ pc' = [pc EXCEPT ![r] = "idle"]
    /\ request' = [request EXCEPT ![r] = NoRequest]
    /\ image_result' = [image_result EXCEPT ![r] = None]
    /\ biomedical_result' = [biomedical_result EXCEPT ![r] = None]
    /\ img_path' = [img_path EXCEPT ![r] = None]
    /\ prediction' = [prediction EXCEPT ![r] = Unset]
    /\ response' = [response EXCEPT ![r] = NoResponse]
    /\ UNCHANGED <<model, files, arrivals>>

\* if not model: return 500; else the three locals are set to None
CheckModel(r) ==
    /\ pc[r] = "check_model"
    /\ IF ModelMissing(model)
       THEN /\ response' = [response EXCEPT ![r] =
                               ErrorResponse("AI model not loaded on server.", 500)]
            /\ pc' = [pc EXCEPT ![r] = "done"]
       ELSE /\ pc' = [pc EXCEPT ![r] = "image"]
            /\ UNCHANGED response
    /\ UNCHANGED <<model, files, arrivals, request, locals>>

\* the test for an upload, secure_filename, os.path.join, and the open for
\* writing that img_file.save starts with (it truncates the file; on the
\* folder itself it raises, which the outer except turns into a 500)
OpenUpload(r) ==
    /\ pc[r] = "image"
    /\ IF ImageGiven(request[r].image)
       THEN LET filename == secure_filename(request[r].image.filename)
                path     == PathJoin(UPLOAD_FOLDER, filename)
            IN  /\ img_path' = [img_path EXCEPT ![r] = path]
                /\ IF filename = <<>>
                   THEN /\ response' = [response EXCEPT ![r] =
                               ErrorResponse("An unexpected server error occurred: ...", 500)]
                        /\ pc' = [pc EXCEPT ![r] = "done"]
                        /\ UNCHANGED files
                   ELSE /\ files' = WriteFile(files, path, PARTIAL)
                        /\ pc' = [pc EXCEPT ![r] = "save"]
                        /\ UNCHANGED response
       ELSE /\ pc' = [pc EXCEPT ![r] = "biomedical"]
            /\ UNCHANGED <<files, img_path, response>>
    /\ UNCHANGED <<model, arrivals, request, image_result,
                   biomedical_result, prediction>>

\* img_file.save copies the upload into the file and closes it
SaveUpload(r) ==
    /\ pc[r] = "save"
    /\ files' = WriteFile(files, img_path[r], request[r].image.content)
    /\ pc' = [pc EXCEPT ![r] = "infer"]
    /\ UNCHANGED <<model, arrivals, request, locals, response>>

\* preprocess_image(img_path) reads the file at img_path back from the
\* folder; model.predict gives the scalar; the label follows.  A file the
\* decoder rejects raises, which the outer except turns into a 500.
ImageInference(r) ==
    /\ pc[r] = "infer"
    /\ LET content == files[img_path[r]]
       IN  IF content \in Decodable
           THEN /\ prediction' = [prediction EXCEPT ![r] = model.predict[content]]
                /\ image_result' = [image_result EXCEPT ![r] =
                                       ImageLabel(model.predict[content])]
                /\ pc' = [pc EXCEPT ![r] = "biomedical"]
                /\ UNCHANGED response
           ELSE /\ response' = [response EXCEPT ![r] =
                       ErrorResponse("An unexpected server error occurred: ...", 500)]
                /\ pc' = [pc EXCEPT ![r] = "done"]
                /\ UNCHANGED <<prediction, image_result>>
    /\ UNCHANGED <<model, files, arrivals, request, biomedical_result, img_path>>

\* the biomedical stage: skipped, a label, or a 400
BiomedicalStage(r) ==
    /\ pc[r] = "biomedical"
    /\ LET outcome == BiomedicalOutcome(request[r].biomedicalData)
       IN  CASE outcome.kind = "skipped" ->
                  /\ pc' = [pc EXCEPT ![r] = "fusion"]
                  /\ UNCHANGED <<biomedical_result, response>>
             [] outcome.kind = "label" ->
                  /\ biomedical_result' =
                        [biomedical_result EXCEPT ![r] = outcome.label]
                  /\ pc' = [pc EXCEPT ![r] = "fusion"]
                  /\ UNCHANGED response
             [] outcome.kind = "rejected" ->
                  /\ response' = [response EXCEPT ![r] =
                                     ErrorResponse(outcome.error, 400)]
                  /\ pc' = [pc EXCEPT ![r] = "done"]
                  /\ UNCHANGED biomedical_result
    /\ UNCHANGED <<model, files, arrivals, request, image_result,
                   img_path, prediction>>

\* the fusion and the 200 response
Respond(r) ==
    /\ pc[r] = "fusion"
    /\ response' = [response EXCEPT ![r] =
          PredictionResponse(image_result[r], biomedical_result[r],
                             Fusion(image_result[r], biomedical_result[r]),
                             img_path[r])]
    /\ pc' = [pc EXCEPT ![r] = "done"]
    /\ UNCHANGED <<model, files, arrivals, request, locals>>

\* ------------------------------------------------------------------------
\* Specifications
\* ------------------------------------------------------------------------

\* one request at a time, the full input space
Next ==
    \E r \in {FirstWorker} :
        \/ Arrive(r, Requests)
        \/ CheckModel(r)
        \/ OpenUpload(r)
        \/ SaveUpload(r)
        \/ ImageInference(r)
        \/ BiomedicalStage(r)
        \/ Respond(r)
        \/ Return(r)

Spec == Init /\ [][Next]_vars

\* the workers handle their requests concurrently
NextConc ==
    \E r \in Workers :
        \/ Arrive(r, ConcRequests)
        \/ CheckModel(r)
        \/ OpenUpload(r)
        \/ SaveUpload(r)
        \/ ImageInference(r)
        \/ BiomedicalStage(r)
        \/ Respond(r)
        \/ Return(r)

SpecConc == Init /\ [][NextConc]_vars

\* ------------------------------------------------------------------------
\* Vocabulary of the properties
\* ------------------------------------------------------------------------

Done(r) == pc[r] = "done"

Status(r) == response[r].status

Body(r) == response[r].body

PredictionFields ==
    {"image_prediction", "biomedical_prediction", "combined_prediction",
     "image_path"}

OnlyError(r) == DOMAIN Body(r) = {"error"}

\* the table of section 4.4 of the specification, row by row
FusionTable(image_result_, biomedical_result_) ==
    CASE image_result_ = AUTISTIC /\ biomedical_result_ # None
            /\ Contains(AUTISM_RISK, biomedical_result_) -> HIGHLY_SUGGESTIVE
      [] image_result_ = AUTISTIC /\ biomedical_result_ # None
            /\ ~ Contains(AUTISM_RISK, biomedical_result_) -> SUGGESTIVE
      [] image_result_ = NON_AUTISTIC /\ biomedical_result_ # None
            /\ Contains(AUTISM_RISK, biomedical_result_) -> SUGGESTIVE
      [] image_result_ = NON_AUTISTIC /\ biomedical_result_ # None
            /\ ~ Contains(AUTISM_RISK, biomedical_result_) -> NOT_AUTISTIC
      [] image_result_ # None /\ biomedical_result_ = None ->
            IMAGE_PREDICTION_PREFIX \o image_result_
      [] image_result_ = None /\ biomedical_result_ # None ->
            BIOMEDICAL_PREDICTION_PREFIX \o biomedical_result_
      [] image_result_ = None /\ biomedical_result_ = None -> NO_DATA

\* the value, in tenths, that each field value of the inputs denotes
\* (an empty or missing field counts as 0.0)
Tenths(v) ==
    CASE v = Missing                      -> 0
      [] v = Str(<<>>)                    -> 0
      [] v = Str(<<"7">>)                 -> 70
      [] v = Str(<<"7",".","0">>)         -> 70
      [] v = Str(<<"7",".","1">>)         -> 71
      [] v = Str(<<" ","8"," ">>)         -> 80
      [] v = Str(<<"6","9",".","9">>)     -> 699
      [] v = Str(<<"7","0">>)             -> 700
      [] v = Str(<<"-","5">>)             -> -50
      [] v = Str(<<"2","0","0">>)         -> 2000
      [] v = Num(71, 10)                  -> 71
      [] v = Num(701, 10)                 -> 701
      [] v = Bool(TRUE)                   -> 10

BiomedicalKeys == {"eeg", "heartRate", "cholesterol"}

\* a value that is no number: a non-numeric text, null, true or false
NonNumeric(v) ==
    \/ v.kind = "str" /\ v.text \in NonNumericTexts
    \/ v.kind \in {"null", "bool"}

\* a value float() does not accept: a non-numeric text or null
NotConvertible(v) ==
    \/ v.kind = "str" /\ v.text \in NonNumericTexts
    \/ v.kind = "null"

\* biomedicalData is malformed JSON or holds a non-numeric value
BadBiomedical(d) ==
    \/ d.kind = "malformed"
    \/ d.kind = "object" /\ \E k \in BiomedicalKeys : NonNumeric(d[k])

\* biomedicalData is malformed JSON or holds a value float() does not accept
UnconvertibleBiomedical(d) ==
    \/ d.kind = "malformed"
    \/ d.kind = "object" /\ \E k \in BiomedicalKeys : NotConvertible(d[k])

\* the request has neither an image part nor a biomedicalData field
NothingSupplied(q) == q.image = NoImage /\ q.biomedicalData.kind = "absent"

\* the request carries an image the decoder accepts
DecodableImageSupplied(q) ==
    /\ q.image.present
    /\ q.image.filename # <<>>
    /\ q.image.content \in Decodable

\* the image stage of the call has saved, decoded and classified the upload
ImageStageCompleted(r) ==
    /\ image_result[r] # None
    /\ prediction[r] # Unset
    /\ img_path[r] # None
    /\ img_path[r] \in DOMAIN files

\* ------------------------------------------------------------------------
\* Properties
\* ------------------------------------------------------------------------

\* C1: fusion is total and deterministic.  In every 200 response the locals
\* image_result and biomedical_result are one of the nine combinations of
\* {None, 'Autistic', 'Non Autistic'} and {None, risk label, low-risk label},
\* combined_prediction is the string the table of section 4.4 gives for the
\* combination, and it is never the placeholder 'Unable to determine'.
C1_FusionMatchesTable ==
    \A r \in Workers :
        Done(r) /\ Status(r) = 200 =>
            /\ image_result[r] \in {None, AUTISTIC, NON_AUTISTIC}
            /\ biomedical_result[r] \in {None, RISK_LABEL, LOW_RISK_LABEL}
            /\ Body(r).combined_prediction =
                   FusionTable(image_result[r], biomedical_result[r])
            /\ Body(r).combined_prediction # UNABLE_TO_DETERMINE

\* C1 witness: a response fused from 'Autistic' and the low-risk label
C1_Witness ==
    \E r \in Workers :
        /\ Done(r) /\ Status(r) = 200
        /\ image_result[r] = AUTISTIC
        /\ biomedical_result[r] = LOW_RISK_LABEL
        /\ Body(r).combined_prediction = HIGHLY_SUGGESTIVE

\* C2: when the model failed to load, every /predict call returns 500 with
\* only an `error` field, whatever the request holds; no stage runs (the call
\* never gets past the model check, its locals stay unset) and no file is
\* saved.
C2_ModelUnavailable ==
    model = ModelNone =>
        /\ DOMAIN files = {}
        /\ \A r \in Workers :
              /\ pc[r] \in {"idle", "check_model", "done"}
              /\ image_result[r] = None
              /\ biomedical_result[r] = None
              /\ img_path[r] = None
              /\ prediction[r] = Unset
              /\ Done(r) => Status(r) = 500 /\ OnlyError(r)

\* C2 witness: without a model, a request with an image and malformed
\* biomedical data has been answered
C2_Witness ==
    \E r \in Workers :
        /\ model = ModelNone
        /\ Done(r)
        /\ DecodableImageSupplied(request[r])
        /\ request[r].biomedicalData.kind = "malformed"
        /\ Status(r) = 500

\* C4: the biomedical label is the risk label exactly when the parsed eeg is
\* above 7.0 and the parsed heartRate is below 70.0 (both strict), and the
\* low-risk label otherwise; an empty or missing field counts as 0.0; the
\* value of cholesterol has no part in it.
C4_BiomedicalHeuristic ==
    \A r \in Workers :
        biomedical_result[r] # None =>
            LET d == request[r].biomedicalData
            IN  /\ d.kind = "object"
                /\ biomedical_result[r] =
                      IF Tenths(d.eeg) > 70 /\ Tenths(d.heartRate) < 700
                      THEN RISK_LABEL
                      ELSE LOW_RISK_LABEL

\* C4 witness: eeg above 7.0 with heartRate missing gives the risk label
C4_Witness ==
    \E r \in Workers :
        /\ Done(r)
        /\ request[r].biomedicalData.kind = "object"
        /\ request[r].biomedicalData.eeg = Str(<<"7",".","1">>)
        /\ request[r].biomedicalData.heartRate = Missing
        /\ biomedical_result[r] = RISK_LABEL

\* C7: the image label is 'Non Autistic' exactly when the model's scalar
\* output is strictly above 0.5, and 'Autistic' otherwise; a scalar of 0.5
\* gives 'Autistic'.
C7_ImageThreshold ==
    \A r \in Workers :
        image_result[r] # None =>
            /\ prediction[r] \in Scores
            /\ image_result[r] \in {AUTISTIC, NON_AUTISTIC}
            /\ image_result[r] = NON_AUTISTIC <=>
                  2 * prediction[r].n > prediction[r].d
            /\ prediction[r] = Rational(5, 10) => image_result[r] = AUTISTIC

\* C7 witness: a scalar of exactly 0.5 was labelled
C7_Witness ==
    \E r \in Workers :
        /\ prediction[r] = Rational(5, 10)
        /\ image_result[r] = AUTISTIC

\* C8: both biomedical labels contain 'Autism Risk'; so a response with both
\* predictions is 'Highly Suggestive of Autism' for 'Autistic' and
\* 'Suggestive of Autism (consider more tests)' for 'Non Autistic', and no
\* response is 'Not Autistic'.
C8_NotAutisticUnreachable ==
    \A r \in Workers :
        /\ biomedical_result[r] # None =>
              Contains(AUTISM_RISK, biomedical_result[r])
        /\ Done(r) /\ Status(r) = 200 =>
              /\ Body(r).combined_prediction # NOT_AUTISTIC
              /\ Body(r).image_prediction # None
                 /\ Body(r).biomedical_prediction # None =>
                    /\ Body(r).image_prediction = AUTISTIC =>
                          Body(r).combined_prediction = HIGHLY_SUGGESTIVE
                    /\ Body(r).image_prediction = NON_AUTISTIC =>
                          Body(r).combined_prediction = SUGGESTIVE
                    /\ Body(r).image_prediction \in {AUTISTIC, NON_AUTISTIC}

\* C8 witness: 'Non Autistic' and the low-risk label give 'Suggestive ...'
C8_Witness ==
    \E r \in Workers :
        /\ Done(r) /\ Status(r) = 200
        /\ Body(r).image_prediction = NON_AUTISTIC
        /\ Body(r).biomedical_prediction = LOW_RISK_LABEL
        /\ Body(r).combined_prediction = SUGGESTIVE

\* C10: a 200 response has the four prediction fields, a non-null
\* combined_prediction, and a non-null image_path exactly when
\* image_prediction is non-null; a call that stored a path but has no image
\* label never returns 200; every other response has `error` and none of the
\* four prediction fields.
C10_ResponseShape ==
    \A r \in Workers :
        Done(r) =>
            /\ Status(r) \in {200, 400, 500}
            /\ Status(r) = 200 =>
                  /\ DOMAIN Body(r) = PredictionFields
                  /\ Body(r).combined_prediction # None
                  /\ Body(r).image_path # None <=>
                        Body(r).image_prediction # None
            /\ img_path[r] # None /\ image_result[r] = None =>
                  Status(r) # 200
            /\ Status(r) # 200 => OnlyError(r)

\* C10 witness: an upload that was saved but could not be decoded was answered
C10_Witness ==
    \E r \in Workers :
        /\ Done(r)
        /\ request[r].image.present
        /\ request[r].image.content = "corrupt"
        /\ img_path[r] \in DOMAIN files
        /\ Status(r) = 500

\* C3, as stated: every request whose biomedicalData is malformed JSON or
\* holds a non-numeric eeg, heartRate or cholesterol is answered 400 with an
\* `error`, whatever else it carries.
C3_BadBiomedicalAlways400 ==
    \A r \in Workers :
        Done(r) /\ BadBiomedical(request[r].biomedicalData) =>
            Status(r) = 400 /\ "error" \in DOMAIN Body(r)

\* C3, amended: when the model is loaded and the image stage, if the request
\* has an image part with a file name, has saved, decoded and classified the
\* upload, a biomedicalData that is malformed JSON or holds a non-numeric
\* text or null for eeg, heartRate or cholesterol is answered 400 with only
\* an `error`: not 500, and not 200 with the value taken as 0.0.
C3_UnconvertibleGives400 ==
    \A r \in Workers :
        /\ Done(r)
        /\ model # ModelNone
        /\ request[r].image.present /\ request[r].image.filename # <<>> =>
              ImageStageCompleted(r)
        /\ UnconvertibleBiomedical(request[r].biomedicalData)
        => Status(r) = 400 /\ OnlyError(r)

\* C3 witness: a classified image together with a non-numeric heartRate
C3_Witness ==
    \E r \in Workers :
        /\ Done(r)
        /\ ImageStageCompleted(r)
        /\ request[r].biomedicalData.kind = "object"
        /\ request[r].biomedicalData.eeg = Str(<<"7",".","1">>)
        /\ request[r].biomedicalData.heartRate = Str(<<"7","x">>)
        /\ Status(r) = 400

\* C5, as stated: a call with neither an image nor biomedicalData is answered
\* with combined_prediction 'No data provided for prediction.' and null
\* image_prediction and biomedical_prediction.
C5_NoDataAlways ==
    \A r \in Workers :
        Done(r) /\ NothingSupplied(request[r]) =>
            /\ PredictionFields \subseteq DOMAIN Body(r)
            /\ Body(r).combined_prediction = NO_DATA
            /\ Body(r).image_prediction = None
            /\ Body(r).biomedical_prediction = None

\* C5, amended: when the model is loaded, a call with neither an image nor
\* biomedicalData is answered 200 with combined_prediction 'No data provided
\* for prediction.' and null image_prediction and biomedical_prediction.
C5_NoDataWhenModelLoaded ==
    \A r \in Workers :
        Done(r) /\ model # ModelNone /\ NothingSupplied(request[r]) =>
            /\ Status(r) = 200
            /\ DOMAIN Body(r) = PredictionFields
            /\ Body(r).combined_prediction = NO_DATA
            /\ Body(r).image_prediction = None
            /\ Body(r).biomedical_prediction = None

\* C5 witness: an empty request was answered by a server with a model
C5_Witness ==
    \E r \in Workers :
        /\ Done(r)
        /\ model # ModelNone
        /\ NothingSupplied(request[r])
        /\ Body(r).combined_prediction = NO_DATA

\* C6: requests are independent under every interleaving: the
\* image_prediction and image_path of a 200 response are those of the
\* request's own upload (its content decodes, the label is the label of the
\* model's output on that content, the path is that of its own file name).
C6_OwnImageDecides ==
    \A r \in Workers :
        /\ Done(r)
        /\ Status(r) = 200
        /\ request[r].image.present
        /\ request[r].image.filename # <<>>
        => LET content == request[r].image.content
               stored  == secure_filename(request[r].image.filename)
           IN  /\ content \in Decodable
               /\ Body(r).image_prediction =
                     IF 2 * model.predict[content].n > model.predict[content].d
                     THEN NON_AUTISTIC ELSE AUTISTIC
               /\ Body(r).image_path =
                     <<"/">> \o UPLOAD_FOLDER \o <<"/">> \o stored

\* C9, as stated: a request with a decodable image and malformed or
\* non-numeric biomedicalData is answered 400 with only an `error`, and its
\* upload is in the upload folder.
C9_DecodableAndBadGives400 ==
    \A r \in Workers :
        /\ Done(r)
        /\ DecodableImageSupplied(request[r])
        /\ BadBiomedical(request[r].biomedicalData)
        => /\ Status(r) = 400
           /\ OnlyError(r)
           /\ PathJoin(UPLOAD_FOLDER, secure_filename(request[r].image.filename))
                 \in DOMAIN files

\* the state part of C9, amended
C9_State ==
    \A r \in Workers :
        /\ pc[r] \in {"biomedical", "fusion"}
           /\ request[r].image.present /\ request[r].image.filename # <<>>
           => ImageStageCompleted(r)
        /\ biomedical_result[r] # None
           /\ request[r].image.present /\ request[r].image.filename # <<>>
           => ImageStageCompleted(r)
        /\ Done(r) /\ Status(r) = 400 =>
              /\ OnlyError(r)
              /\ img_path[r] # None => ImageStageCompleted(r)
        /\ Done(r) /\ ImageStageCompleted(r)
           /\ UnconvertibleBiomedical(request[r].biomedicalData)
           => Status(r) = 400

\* C9, amended: the image stage runs to completion before the biomedical
\* stage starts, and a failure of the biomedical stage does not undo it: a
\* request whose image stage completed (the model is loaded, the upload was
\* saved, decoded and classified) and whose biomedicalData is malformed or
\* holds a non-numeric text or null is answered 400 with only an `error`,
\* every 400 response carries only `error` while the file of its image stage
\* is in the upload folder, and no step of /predict removes a file.
C9_ImageStageNotUndone ==
    /\ []C9_State
    /\ [][DOMAIN files \subseteq DOMAIN files']_vars

\* C9 witness: a 400 response after a completed image stage
C9_Witness ==
    \E r \in Workers :
        /\ Done(r)
        /\ Status(r) = 400
        /\ request[r].biomedicalData.kind = "malformed"
        /\ image_result[r] = NON_AUTISTIC
        /\ files[img_path[r]] = request[r].image.content

====
